---- MODULE Spec2Model ----
(***************************************************************************)
(* Model of the cross-camera speed correlator, src/speed_calculator.py     *)
(* (class SpeedCalculator), and of the two producer threads started by     *)
(* src/web_server.py.                                                      *)
(*                                                                         *)
(* Units.  Times (caller timestamps and the wall clock time.time()) are    *)
(* integers counting ticks of 1/20 s, so 0.1 s is 2 ticks and 6.0 s is 120 *)
(* ticks.  Speeds are exact rationals [n |-> numerator, d |-> denominator] *)
(* in lowest terms.  Python computes both in binary floating point; the    *)
(* model follows the real-number reading of the same expressions.          *)
(***************************************************************************)
EXTENDS Integers, Sequences, FiniteSets, TLC

VARIABLES
    now,                   \* the wall clock read by time.time()
    pending_detections,    \* self.pending_detections: plate -> entry
    completed_detections,  \* self.completed_detections
    violations,            \* self.violations
    violations_file,       \* content of violations.json
    last,                  \* the most recent process_detection call: its arguments,
                           \* the wall clock, the entry it found and its result
    issued,                \* the violation ids handed out since the first startup
    threads,               \* the producer thread of each camera: where it stands in
                           \* process_detection, and its local variables
    fine,                  \* the latest _calculate_fine call: argument and result
    query                  \* the latest query (get_recent_measurements,
                           \* get_violations, get_statistics) and what it returned

vars == <<now, pending_detections, completed_detections, violations,
          violations_file, last, issued, threads, fine, query>>

\* Python's None: the return value of a call that completes no match, and
\* the default image_path
None == [kind |-> "None"]

----------------------------------------------------------------------------
(* Configuration *)

\* SpeedCalculator(distance_meters=5.0, speed_limit_kmh=60.0)
distance_meters == 5
speed_limit_kmh == 60
\* self.detection_timeout = 6.0 seconds, in ticks
detection_timeout == 120
\* the lower end of the match window, 0.1 seconds, in ticks
min_time_diff == 2

Cameras == {1, 2}

----------------------------------------------------------------------------
(* Exact rational arithmetic for the float expressions of the source *)

Abs(x) == IF x < 0 THEN -x ELSE x

RECURSIVE GCD(_, _)
GCD(a, b) == IF b = 0 THEN a ELSE GCD(b, a % b)

\* n/d in lowest terms, d > 0
Rat(n, d) ==
    LET g == GCD(Abs(n), d)
    IN  IF n = 0 THEN [n |-> 0, d |-> 1] ELSE [n |-> n \div g, d |-> d \div g]

RatOfInt(i) == [n |-> i, d |-> 1]
RatSub(a, b) == Rat(a.n * b.d - b.n * a.d, a.d * b.d)
RatLE(a, b) == a.n * b.d <= b.n * a.d
RatGT(a, b) == a.n * b.d > b.n * a.d
RatAdd(a, b) == Rat(a.n * b.d + b.n * a.d, a.d * b.d)

\* sum(speeds), from 0
RECURSIVE RatSum(_)
RatSum(speeds) ==
    IF speeds = <<>> THEN RatOfInt(0) ELSE RatAdd(Head(speeds), RatSum(Tail(speeds)))

\* max(speeds) of a non-empty list
RECURSIVE RatMax(_)
RatMax(speeds) ==
    IF Len(speeds) = 1 THEN Head(speeds)
    ELSE LET m == RatMax(Tail(speeds))
         IN  IF RatGT(Head(speeds), m) THEN Head(speeds) ELSE m

----------------------------------------------------------------------------
(* Plate text: a sequence of one-character strings *)

Whitespace == {" ", "\t"}

Upper(c) ==
    CASE c = "a" -> "A"
      [] c = "b" -> "B"
      [] OTHER -> c

RECURSIVE LStrip(_)
LStrip(s) ==
    IF s # <<>> /\ Head(s) \in Whitespace THEN LStrip(Tail(s)) ELSE s

RECURSIVE RStrip(_)
RStrip(s) ==
    IF s # <<>> /\ s[Len(s)] \in Whitespace
    THEN RStrip(SubSeq(s, 1, Len(s) - 1))
    ELSE s

RECURSIVE RemoveSpaces(_)
RemoveSpaces(s) ==
    IF s = <<>> THEN <<>>
    ELSE IF Head(s) = " " THEN RemoveSpaces(Tail(s))
    ELSE <<Head(s)>> \o RemoveSpaces(Tail(s))

\* variant: spaces inside the text are kept
Normalize_StripOnly(plate_text) ==
    LET stripped == RStrip(LStrip(plate_text))
    IN  [i \in 1..Len(stripped) |-> Upper(stripped[i])]

\* plate_text.strip().upper().replace(" ", "")
Normalize(plate_text) ==
    LET stripped == RStrip(LStrip(plate_text))
        upper == [i \in 1..Len(stripped) |-> Upper(stripped[i])]
    IN  RemoveSpaces(upper)

----------------------------------------------------------------------------
(* SpeedCalculator: the pure parts of process_detection *)

\* A pending entry, the dict stored under the normalized plate
Entry(camera_id, timestamp, image_path) ==
    [camera_id |-> camera_id, timestamp |-> timestamp, image_path |-> image_path]

\* other_camera_id = 2 if camera_id == 1 else 1
OtherCamera(camera_id) == IF camera_id = 1 THEN 2 ELSE 1

\* variant: the age computed with its operands exchanged
ExpiredPlates_Reversed(pending, current_time) ==
    {plate \in DOMAIN pending :
        pending[plate].timestamp - current_time > detection_timeout}

\* variant: an entry whose age equals the timeout counts as expired
ExpiredPlates_Inclusive(pending, current_time) ==
    {plate \in DOMAIN pending :
        current_time - pending[plate].timestamp >= detection_timeout}

\* the plates _cleanup_expired_detections collects at wall-clock current_time
ExpiredPlates(pending, current_time) ==
    {plate \in DOMAIN pending :
        current_time - pending[plate].timestamp > detection_timeout}

\* del self.pending_detections[plate], for a set of plates
Without(pending, plates) ==
    [plate \in DOMAIN pending \ plates |-> pending[plate]]

\* variant: an existing entry is kept (setdefault)
Store_KeepExisting(pending, plate, entry) ==
    [p \in DOMAIN pending \cup {plate} |-> IF p \in DOMAIN pending THEN pending[p] ELSE entry]

\* self.pending_detections[plate] = entry
Store(pending, plate, entry) ==
    [p \in DOMAIN pending \cup {plate} |-> IF p = plate THEN entry ELSE pending[p]]

\* variant: when any entry has expired the whole table is cleared
_cleanup_expired_detections_ClearsAll(pending, current_time) ==
    IF ExpiredPlates(pending, current_time) = {} THEN pending ELSE <<>>

_cleanup_expired_detections(pending, current_time) ==
    Without(pending, ExpiredPlates(pending, current_time))

\* variant: the difference without abs()
TimeDiff_Signed(timestamp, pending_timestamp) == timestamp - pending_timestamp

\* time_diff = abs(timestamp - pending["timestamp"])
TimeDiff(timestamp, pending_timestamp) == Abs(timestamp - pending_timestamp)

\* variant: the window without its lower end
InWindow_NoLowerBound(time_diff) == time_diff <= detection_timeout

\* variant: the window without its upper end
InWindow_NoUpperBound(time_diff) == min_time_diff <= time_diff

\* 0.1 <= time_diff <= self.detection_timeout
InWindow(time_diff) ==
    min_time_diff <= time_diff /\ time_diff <= detection_timeout

\* speed_ms = distance_meters / time_diff if time_diff > 0 else 0
\* (time_diff ticks are time_diff/20 seconds)
SpeedMs(time_diff) ==
    IF time_diff > 0 THEN Rat(distance_meters * 20, time_diff) ELSE RatOfInt(0)

\* speed_kmh = speed_ms * 3.6
SpeedKmh(speed_ms) == Rat(speed_ms.n * 36, speed_ms.d * 10)

\* variant: the limit itself counts as over the limit
OverLimit_Inclusive(speed_kmh) == ~RatGT(RatOfInt(speed_limit_kmh), speed_kmh)

\* speed_kmh > self.speed_limit_kmh
OverLimit(speed_kmh) == RatGT(speed_kmh, RatOfInt(speed_limit_kmh))

\* variant: the observation that arrived first is reported as camera 1
Measurement_ArrivalOrder(plate, pending, camera_id, timestamp, image_path, current_time) ==
    LET time_diff == TimeDiff(timestamp, pending.timestamp)
        speed_ms == SpeedMs(time_diff)
        speed_kmh == SpeedKmh(speed_ms)
    IN  [plate |-> plate,
         camera1_time |-> pending.timestamp,
         camera2_time |-> timestamp,
         time_diff_seconds |-> time_diff,
         speed_ms |-> speed_ms,
         speed_kmh |-> speed_kmh,
         distance_meters |-> distance_meters,
         camera1_image |-> pending.image_path,
         camera2_image |-> image_path,
         measurement_time |-> current_time,
         over_speed_limit |-> OverLimit(speed_kmh)]

\* the measurement dict built on a match; pending is the consumed entry
Measurement(plate, pending, camera_id, timestamp, image_path, current_time) ==
    LET time_diff == TimeDiff(timestamp, pending.timestamp)
        speed_ms == SpeedMs(time_diff)
        speed_kmh == SpeedKmh(speed_ms)
    IN  [plate |-> plate,
         camera1_time |-> IF pending.camera_id = 1 THEN pending.timestamp ELSE timestamp,
         camera2_time |-> IF pending.camera_id = 2 THEN pending.timestamp ELSE timestamp,
         time_diff_seconds |-> time_diff,
         speed_ms |-> speed_ms,
         speed_kmh |-> speed_kmh,
         distance_meters |-> distance_meters,
         camera1_image |-> IF pending.camera_id = 1 THEN pending.image_path ELSE image_path,
         camera2_image |-> IF pending.camera_id = 2 THEN pending.image_path ELSE image_path,
         measurement_time |-> current_time,
         over_speed_limit |-> OverLimit(speed_kmh)]

\* variant: the tier boundaries belong to the upper tier
_calculate_fine_Strict(speed_kmh) ==
    LET excess_speed == RatSub(speed_kmh, RatOfInt(speed_limit_kmh))
    IN  IF ~RatLE(RatOfInt(10), excess_speed) THEN 100
        ELSE IF ~RatLE(RatOfInt(20), excess_speed) THEN 200
        ELSE IF ~RatLE(RatOfInt(30), excess_speed) THEN 400
        ELSE 600

_calculate_fine(speed_kmh) ==
    LET excess_speed == RatSub(speed_kmh, RatOfInt(speed_limit_kmh))
    IN  IF RatLE(excess_speed, RatOfInt(10)) THEN 100
        ELSE IF RatLE(excess_speed, RatOfInt(20)) THEN 200
        ELSE IF RatLE(excess_speed, RatOfInt(30)) THEN 400
        ELSE 600

\* "id": len(self.violations) + 1
NextViolationId(vs) == Len(vs) + 1

\* variant: the two image references exchanged
Violation_SwappedImages(vs, measurement) ==
    [id |-> NextViolationId(vs),
     plate |-> measurement.plate,
     speed_kmh |-> measurement.speed_kmh,
     speed_limit_kmh |-> speed_limit_kmh,
     timestamp |-> measurement.measurement_time,
     location |-> "Test Location",
     camera1_image |-> measurement.camera2_image,
     camera2_image |-> measurement.camera1_image,
     time_diff_seconds |-> measurement.time_diff_seconds,
     fine_amount |-> _calculate_fine(measurement.speed_kmh)]

\* the violation dict of _create_violation
Violation(vs, measurement) ==
    [id |-> NextViolationId(vs),
     plate |-> measurement.plate,
     speed_kmh |-> measurement.speed_kmh,
     speed_limit_kmh |-> speed_limit_kmh,
     timestamp |-> measurement.measurement_time,
     location |-> "Test Location",
     camera1_image |-> measurement.camera1_image,
     camera2_image |-> measurement.camera2_image,
     time_diff_seconds |-> measurement.time_diff_seconds,
     fine_amount |-> _calculate_fine(measurement.speed_kmh)]

(* JSON values: what json.dump writes for the values of a violation dict   *)
(* and what json.load makes of them.  None becomes null, int and float     *)
(* become numbers, str becomes a string, a dict an object with the same    *)
(* keys in the same order, a list an array.                                *)
JsonNull == [json |-> "null"]
JsonNumber(x) == [json |-> "number", value |-> x]
JsonString(s) == [json |-> "string", value |-> s]

\* an image path: a str, or None when the caller passed no image
JsonOptionalString(x) == IF x = None THEN JsonNull ELSE JsonString(x)

PyOptionalString(j) == IF j = JsonNull THEN None ELSE j.value

\* the JSON object of one violation dict
JsonObject(violation) ==
    [id |-> JsonNumber(violation.id),
     plate |-> JsonString(violation.plate),
     speed_kmh |-> JsonNumber(violation.speed_kmh),
     speed_limit_kmh |-> JsonNumber(violation.speed_limit_kmh),
     timestamp |-> JsonNumber(violation.timestamp),
     location |-> JsonString(violation.location),
     camera1_image |-> JsonOptionalString(violation.camera1_image),
     camera2_image |-> JsonOptionalString(violation.camera2_image),
     time_diff_seconds |-> JsonNumber(violation.time_diff_seconds),
     fine_amount |-> JsonNumber(violation.fine_amount)]

\* the dict json.load builds from one JSON object of the file
PyDict(object) ==
    [id |-> object.id.value,
     plate |-> object.plate.value,
     speed_kmh |-> object.speed_kmh.value,
     speed_limit_kmh |-> object.speed_limit_kmh.value,
     timestamp |-> object.timestamp.value,
     location |-> object.location.value,
     camera1_image |-> PyOptionalString(object.camera1_image),
     camera2_image |-> PyOptionalString(object.camera2_image),
     time_diff_seconds |-> object.time_diff_seconds.value,
     fine_amount |-> object.fine_amount.value]

\* json.dump(self.violations, f, indent=2): the array of the objects, in order
json_dump(vs) == [i \in 1..Len(vs) |-> JsonObject(vs[i])]

\* variant: the array is read back last element first
json_load_Reversed(document) ==
    [i \in 1..Len(document) |-> PyDict(document[Len(document) + 1 - i])]

\* json.load(f) on a document json_dump wrote
json_load(document) == [i \in 1..Len(document) |-> PyDict(document[i])]

(* The violations file.  Absent: no file.  Corrupt: a file json.load rejects, *)
(* empty or partial (open(..., 'w') truncated it and the dump did not         *)
(* complete).  Otherwise the JSON document that was dumped.                   *)
Absent == [kind |-> "absent", content |-> <<>>]
Corrupt == [kind |-> "corrupt", content |-> <<>>]
FileOf(vs) == [kind |-> "list", content |-> json_dump(vs)]

\* how a write of the file can end: the dump completes, open() raises, or
\* the dump raises after open() truncated the file
SaveOutcomes == {"ok", "open_failed", "write_failed"}

\* variant: only the violation just created is written
save_violations_OnlyNewest(vs, file, outcome) ==
    CASE outcome = "ok" -> FileOf(<<vs[Len(vs)]>>)
      [] outcome = "open_failed" -> file
      [] OTHER -> Corrupt

save_violations(vs, file, outcome) ==
    CASE outcome = "ok" -> FileOf(vs)
      [] outcome = "open_failed" -> file
      [] OTHER -> Corrupt

\* how a read of an existing file can end
LoadOutcomes == {"ok", "read_failed"}

\* variant: a file that exists seeds the list even when reading it failed
load_violations_KeepsContent(file, outcome) ==
    IF file.kind = "list" THEN json_load(file.content) ELSE <<>>

\* self.violations = [] followed by load_violations(): the list stays empty
\* when there is no file or when open() or json.load() raises
load_violations(file, outcome) ==
    IF file.kind = "list" /\ outcome = "ok" THEN json_load(file.content) ELSE <<>>

\* how load_violations ended: no file, the list was loaded, or the
\* exception of a failed read or parse was caught and logged
LoadResult(file, outcome) ==
    IF file.kind = "absent" THEN "absent"
    ELSE IF file.kind = "list" /\ outcome = "ok" THEN "loaded"
    ELSE "failed"

\* variant: the camera of the entry is not looked at
Branch_AnyCamera(swept, plate, camera_id, timestamp) ==
    IF plate \in DOMAIN swept
    THEN IF InWindow(TimeDiff(timestamp, swept[plate].timestamp))
         THEN "match"
         ELSE "store"
    ELSE "store"

(* The path a call takes through the if/elif of process_detection, given  *)
(* the pending table after the sweep:                                      *)
(*   "match"  - an entry of the other camera within the time window        *)
(*   "update" - an entry of the same camera (the elif)                     *)
(*   "store"  - no entry, or an entry of the other camera outside the      *)
(*              window: control reaches the store at the end of the method *)
Branch(swept, plate, camera_id, timestamp) ==
    IF plate \in DOMAIN swept
    THEN IF swept[plate].camera_id = OtherCamera(camera_id)
         THEN IF InWindow(TimeDiff(timestamp, swept[plate].timestamp))
              THEN "match"
              ELSE "store"
         ELSE IF swept[plate].camera_id = camera_id
              THEN "update"
              ELSE "store"
    ELSE "store"

\* variant: a rejected cross-camera observation is dropped and the entry kept
PendingAfter_DropRejected(swept, plate, entry, branch) ==
    IF branch = "match"
    THEN Without(swept, {plate})
    ELSE IF plate \in DOMAIN swept /\ swept[plate].camera_id # entry.camera_id
    THEN swept
    ELSE Store(swept, plate, entry)

\* variant: an observation with an empty plate is not stored
PendingAfter_SkipsEmptyPlate(swept, plate, entry, branch) ==
    IF branch = "match"
    THEN Without(swept, {plate})
    ELSE IF plate = <<>>
    THEN swept
    ELSE Store(swept, plate, entry)

\* variant: on a match the matching observation takes the place of the entry
PendingAfter_StoresOnMatch(swept, plate, entry, branch) ==
    Store(swept, plate, entry)

\* what the call leaves in the pending table on each path
PendingAfter(swept, plate, entry, branch) ==
    IF branch = "match"
    THEN Without(swept, {plate})
    ELSE Store(swept, plate, entry)

\* variant: the exception of a failed write is not caught in save_violations
\* and ends the call before the entry is deleted and the measurement returned
process_detection_result_SavePropagates(self, camera_id, plate_text, timestamp, image_path, current_time, save) ==
    LET plate == Normalize(plate_text)
        swept == _cleanup_expired_detections(self.pending_detections, current_time)
        entry == Entry(camera_id, timestamp, image_path)
        branch == Branch(swept, plate, camera_id, timestamp)
    IN  IF branch = "match"
        THEN LET measurement == Measurement(plate, swept[plate], camera_id, timestamp,
                                            image_path, current_time)
                 over == OverLimit(measurement.speed_kmh)
                 vs == IF over
                       THEN Append(self.violations,
                                   Violation(self.violations, measurement))
                       ELSE self.violations
                 raised == over /\ save # "ok"
             IN  [pending_detections |->
                      IF raised THEN swept
                      ELSE PendingAfter(swept, plate, entry, branch),
                  completed_detections |->
                      Append(self.completed_detections, measurement),
                  violations |-> vs,
                  violations_file |->
                      IF over THEN save_violations(vs, self.violations_file, save)
                      ELSE self.violations_file,
                  ret |-> IF raised THEN None ELSE measurement]
        ELSE [pending_detections |-> PendingAfter(swept, plate, entry, branch),
              completed_detections |-> self.completed_detections,
              violations |-> self.violations,
              violations_file |-> self.violations_file,
              ret |-> None]

\* variant: the histories are kept newest first
process_detection_result_NewestFirst(self, camera_id, plate_text, timestamp, image_path, current_time, save) ==
    LET plate == Normalize(plate_text)
        swept == _cleanup_expired_detections(self.pending_detections, current_time)
        entry == Entry(camera_id, timestamp, image_path)
        branch == Branch(swept, plate, camera_id, timestamp)
    IN  IF branch = "match"
        THEN LET measurement == Measurement(plate, swept[plate], camera_id, timestamp,
                                            image_path, current_time)
                 over == OverLimit(measurement.speed_kmh)
                 vs == IF over
                       THEN <<Violation(self.violations, measurement)>>
                                \o self.violations
                       ELSE self.violations
             IN  [pending_detections |-> PendingAfter(swept, plate, entry, branch),
                  completed_detections |->
                      <<measurement>> \o self.completed_detections,
                  violations |-> vs,
                  violations_file |->
                      IF over THEN save_violations(vs, self.violations_file, save)
                      ELSE self.violations_file,
                  ret |-> measurement]
        ELSE [pending_detections |-> PendingAfter(swept, plate, entry, branch),
              completed_detections |-> self.completed_detections,
              violations |-> self.violations,
              violations_file |-> self.violations_file,
              ret |-> None]

\* variant: a measurement within the limit is returned but not recorded
process_detection_result_UnrecordedReturn(self, camera_id, plate_text, timestamp, image_path, current_time, save) ==
    LET plate == Normalize(plate_text)
        swept == _cleanup_expired_detections(self.pending_detections, current_time)
        entry == Entry(camera_id, timestamp, image_path)
        branch == Branch(swept, plate, camera_id, timestamp)
    IN  IF branch = "match"
        THEN LET measurement == Measurement(plate, swept[plate], camera_id, timestamp,
                                            image_path, current_time)
                 over == OverLimit(measurement.speed_kmh)
                 vs == IF over
                       THEN Append(self.violations,
                                   Violation(self.violations, measurement))
                       ELSE self.violations
             IN  [pending_detections |-> PendingAfter(swept, plate, entry, branch),
                  completed_detections |->
                      IF over THEN Append(self.completed_detections, measurement)
                      ELSE self.completed_detections,
                  violations |-> vs,
                  violations_file |->
                      IF over THEN save_violations(vs, self.violations_file, save)
                      ELSE self.violations_file,
                  ret |-> measurement]
        ELSE [pending_detections |-> PendingAfter(swept, plate, entry, branch),
              completed_detections |-> self.completed_detections,
              violations |-> self.violations,
              violations_file |-> self.violations_file,
              ret |-> None]

(* One whole call of process_detection on the object state self, at       *)
(* wall-clock current_time; save is the outcome of the file write if one  *)
(* happens.  The result is the new object state and the return value.     *)
process_detection_result(self, camera_id, plate_text, timestamp, image_path, current_time, save) ==
    LET plate == Normalize(plate_text)
        swept == _cleanup_expired_detections(self.pending_detections, current_time)
        entry == Entry(camera_id, timestamp, image_path)
        branch == Branch(swept, plate, camera_id, timestamp)
    IN  IF branch = "match"
        THEN LET measurement == Measurement(plate, swept[plate], camera_id, timestamp,
                                            image_path, current_time)
                 over == OverLimit(measurement.speed_kmh)
                 vs == IF over
                       THEN Append(self.violations,
                                   Violation(self.violations, measurement))
                       ELSE self.violations
             IN  [pending_detections |-> PendingAfter(swept, plate, entry, branch),
                  completed_detections |->
                      Append(self.completed_detections, measurement),
                  violations |-> vs,
                  violations_file |->
                      IF over THEN save_violations(vs, self.violations_file, save)
                      ELSE self.violations_file,
                  ret |-> measurement]
        ELSE [pending_detections |-> PendingAfter(swept, plate, entry, branch),
              completed_detections |-> self.completed_detections,
              violations |-> self.violations,
              violations_file |-> self.violations_file,
              ret |-> None]

(* Queries *)

\* Python's lst[start:] for any integer start: a negative start counts from
\* the end, and both ends are clipped to the list
SliceFrom(lst, start) ==
    LET len == Len(lst)
        first == IF start < 0
                 THEN (IF len + start < 0 THEN 0 ELSE len + start)
                 ELSE (IF start > len THEN len ELSE start)
    IN  SubSeq(lst, first + 1, len)

\* an int argument of a query; None stands for an argument left out
Count(n) == [kind |-> "int", value |-> n]

\* return self.completed_detections[-count:]
get_recent_measurements(completed, count) == SliceFrom(completed, 0 - count.value)

\* self.violations if count is None else self.violations[-count:]
get_violations(vs, count) ==
    IF count = None THEN vs ELSE SliceFrom(vs, 0 - count.value)

NoStatistics ==
    [total_measurements |-> 0, total_violations |-> 0,
     violation_percentage |-> RatOfInt(0), average_speed |-> RatOfInt(0),
     max_speed |-> RatOfInt(0)]

\* variant: without measurements the violations are still counted
get_statistics_CountsViolations(completed, vs) ==
    LET total_measurements == Len(completed)
        total_violations == Len(vs)
        speeds == [i \in 1..Len(completed) |-> completed[i].speed_kmh]
    IN  IF total_measurements = 0
        THEN [NoStatistics EXCEPT !.total_violations = total_violations]
        ELSE [total_measurements |-> total_measurements,
              total_violations |-> total_violations,
              violation_percentage |-> Rat(total_violations * 100, total_measurements),
              average_speed |-> Rat(RatSum(speeds).n, RatSum(speeds).d * Len(speeds)),
              max_speed |-> RatMax(speeds)]

get_statistics(completed, vs) ==
    LET total_measurements == Len(completed)
        total_violations == Len(vs)
        speeds == [i \in 1..Len(completed) |-> completed[i].speed_kmh]
    IN  IF total_measurements = 0
        THEN NoStatistics
        ELSE [total_measurements |-> total_measurements,
              total_violations |-> total_violations,
              violation_percentage |-> Rat(total_violations * 100, total_measurements),
              average_speed |-> Rat(RatSum(speeds).n, RatSum(speeds).d * Len(speeds)),
              max_speed |-> RatMax(speeds)]

----------------------------------------------------------------------------
(* Inputs *)

\* raw plate texts handed in by the camera pipelines
PlateTexts == { <<" ", "a", " ", "b", " ">>, <<" ">> }

\* caller-supplied timestamps: 0 s, 0.05 s, 0.1 s, 0.3 s and 6.05 s
Times == {0, 1, 2, 6, 121}

\* the timestamps a call can carry at wall-clock current_time:
\* a caller-supplied one, or the default time.time() when none is passed
Timestamps(current_time) == Times \cup {current_time}

\* the image a camera pipeline saves for a detection and passes along:
\* detections/camera{camera_id}_{timestamp}_{plate}.jpg
ImageFile(camera_id, timestamp) == [camera |-> camera_id, time |-> timestamp]

Images(camera_id, timestamp) == {ImageFile(camera_id, timestamp)}

\* the values the wall clock takes
ClockValues == {0, 121}

\* calls of process_detection in one run
MaxCalls == 3

----------------------------------------------------------------------------
(* The sequential system: one call at a time *)

NoCall(seq) ==
    [seq |-> seq, camera_id |-> 0, plate_text |-> <<>>, plate |-> <<>>, timestamp |-> 0,
     image_path |-> None, now |-> 0, found |-> None, ret |-> None,
     save |-> "none", load |-> "absent"]

\* a producer thread outside process_detection
IdleFrame ==
    [pc |-> "idle", calls |-> 0, plate |-> <<>>, timestamp |-> 0,
     image_path |-> None, current_time |-> 0, seen |-> {}, iter_len |-> 0,
     expired_plates |-> {}, pending |-> None, measurement |-> None,
     violation |-> None, ret |-> None, error |-> "none"]

NoFine == [speed_kmh |-> [n |-> 0, d |-> 1], fine_amount |-> 0]

\* no query has been made
NoQuery == [op |-> "none", count |-> None, result |-> <<>>, statistics |-> None]

Init ==
    /\ now = 0
    /\ pending_detections = <<>>
    /\ completed_detections = <<>>
    /\ violations = <<>>
    /\ violations_file = Absent
    /\ last = NoCall(0)
    /\ issued = <<>>
    /\ threads = [c \in Cameras |-> IdleFrame]
    /\ fine = NoFine
    /\ query = NoQuery

Self ==
    [pending_detections |-> pending_detections,
     completed_detections |-> completed_detections,
     violations |-> violations,
     violations_file |-> violations_file]

\* a producer calls process_detection and the call runs to its return
process_detection(camera_id, plate_text, timestamp, image_path, save) ==
    /\ \E r \in {process_detection_result(Self, camera_id, plate_text, timestamp,
                                         image_path, now, save)} :
           /\ pending_detections' = r.pending_detections
           /\ completed_detections' = r.completed_detections
           /\ violations' = r.violations
           /\ violations_file' = r.violations_file
           /\ issued' = IF Len(r.violations) > Len(violations)
                         THEN Append(issued, r.violations[Len(r.violations)].id)
                         ELSE issued
           /\ last' = [seq |-> last.seq + 1,
                       camera_id |-> camera_id,
                       plate_text |-> plate_text,
                       plate |-> Normalize(plate_text),
                       timestamp |-> timestamp,
                       image_path |-> image_path,
                       now |-> now,
                       found |-> IF Normalize(plate_text) \in DOMAIN pending_detections
                                 THEN pending_detections[Normalize(plate_text)]
                                 ELSE None,
                       ret |-> r.ret,
                       save |-> IF Len(r.violations) > Len(violations)
                                THEN save ELSE "none",
                       load |-> "none"]
    /\ UNCHANGED <<now, threads, fine, query>>

\* the file is written only by a call that creates a violation
WritesFile(camera_id, plate_text, timestamp) ==
    LET plate == Normalize(plate_text)
        swept == _cleanup_expired_detections(pending_detections, now)
    IN  /\ Branch(swept, plate, camera_id, timestamp) = "match"
        /\ OverLimit(SpeedKmh(SpeedMs(TimeDiff(timestamp, swept[plate].timestamp))))

ProcessDetection ==
    /\ last.seq < MaxCalls
    /\ \E camera_id \in Cameras, plate_text \in PlateTexts, timestamp \in Timestamps(now) :
        \E image_path \in Images(camera_id, timestamp),
           save \in IF WritesFile(camera_id, plate_text, timestamp)
                    THEN SaveOutcomes ELSE {"ok"} :
            process_detection(camera_id, plate_text, timestamp, image_path, save)

\* the wall clock advances
Tick ==
    /\ \E t \in ClockValues : t > now /\ now' = t
    /\ UNCHANGED <<pending_detections, completed_detections, violations,
                   violations_file, last, issued, threads, fine, query>>

\* the process stops and a new SpeedCalculator is constructed (__init__)
Restart ==
    /\ \E outcome \in LoadOutcomes :
           /\ violations' = load_violations(violations_file, outcome)
           /\ last' = [NoCall(last.seq) EXCEPT
                           !.load = LoadResult(violations_file, outcome)]
    /\ pending_detections' = <<>>
    /\ completed_detections' = <<>>
    /\ UNCHANGED <<now, violations_file, issued, threads, fine, query>>

Next == ProcessDetection \/ Tick \/ Restart

Spec == Init /\ [][Next]_vars

----------------------------------------------------------------------------
(* _calculate_fine on its own *)

\* quarter km/h steps above the limit the fine is evaluated at
MaxExcessQuarters == 130

FineSpeeds ==
    {Rat(4 * speed_limit_kmh + k, 4) : k \in 1..MaxExcessQuarters}

CalculateFine ==
    /\ \E speed_kmh \in FineSpeeds :
           fine' = [speed_kmh |-> speed_kmh, fine_amount |-> _calculate_fine(speed_kmh)]
    /\ UNCHANGED <<now, pending_detections, completed_detections, violations,
                   violations_file, last, issued, threads, query>>

SpecFine == Init /\ [][CalculateFine]_vars

----------------------------------------------------------------------------
(* Sessions of one speeding vehicle: calls, storage failures and restarts *)

\* calls of process_detection over all sessions of one run
MaxSessionCalls == 6

\* 0 s and 0.1 s: a pair 0.1 s apart is 180 km/h
SessionTimes == {0, 2}

SessionDetection ==
    /\ last.seq < MaxSessionCalls
    /\ \E camera_id \in Cameras, timestamp \in SessionTimes :
        \E image_path \in Images(camera_id, timestamp),
           save \in IF WritesFile(camera_id, <<"a", "b">>, timestamp)
                    THEN SaveOutcomes ELSE {"ok"} :
            process_detection(camera_id, <<"a", "b">>, timestamp, image_path, save)

NextSessions == SessionDetection \/ Restart

SpecSessions == Init /\ [][NextSessions]_vars

----------------------------------------------------------------------------
(* Observations of plates as the recognizers spell them: the same plate   *)
(* in different letter case and with spaces in different places, and one   *)
(* other plate                                                             *)

\* calls of process_detection in one run
MaxPlateCalls == 2

SpelledPlateTexts ==
    { <<"a", "b">>, <<"A", "B">>, <<" ", "a", " ", "B", " ">>, <<"A", " ", "b">>,
      <<"b", "a">> }

PlateDetection ==
    /\ last.seq < MaxPlateCalls
    /\ \E camera_id \in Cameras, plate_text \in SpelledPlateTexts, timestamp \in SessionTimes :
        \E image_path \in Images(camera_id, timestamp),
           save \in IF WritesFile(camera_id, plate_text, timestamp)
                    THEN SaveOutcomes ELSE {"ok"} :
            process_detection(camera_id, plate_text, timestamp, image_path, save)

SpecPlates == Init /\ [][PlateDetection]_vars

----------------------------------------------------------------------------
(* Queries between the calls and restarts of such sessions *)

\* calls of process_detection over all sessions of one run
MaxQueryCalls == 4

\* the largest count a query is made with
MaxCount == 3

QueryDetection ==
    /\ last.seq < MaxQueryCalls
    /\ \E camera_id \in Cameras, timestamp \in SessionTimes :
        \E image_path \in Images(camera_id, timestamp),
           save \in IF WritesFile(camera_id, <<"a", "b">>, timestamp)
                    THEN SaveOutcomes ELSE {"ok"} :
            process_detection(camera_id, <<"a", "b">>, timestamp, image_path, save)

Counts == {Count(n) : n \in 0..MaxCount}

GetRecentMeasurements ==
    /\ \E count \in Counts :
           query' = [op |-> "get_recent_measurements",
                     count |-> count,
                     result |-> get_recent_measurements(completed_detections, count),
                     statistics |-> None]
    /\ UNCHANGED <<now, pending_detections, completed_detections, violations,
                   violations_file, last, issued, threads, fine>>

GetViolations ==
    /\ \E count \in Counts \cup {None} :
           query' = [op |-> "get_violations",
                     count |-> count,
                     result |-> get_violations(violations, count),
                     statistics |-> None]
    /\ UNCHANGED <<now, pending_detections, completed_detections, violations,
                   violations_file, last, issued, threads, fine>>

GetStatistics ==
    /\ query' = [op |-> "get_statistics",
                 count |-> None,
                 result |-> <<>>,
                 statistics |-> get_statistics(completed_detections, violations)]
    /\ UNCHANGED <<now, pending_detections, completed_detections, violations,
                   violations_file, last, issued, threads, fine>>

NextQueries ==
    \/ QueryDetection
    \/ Restart
    \/ GetRecentMeasurements
    \/ GetViolations
    \/ GetStatistics

SpecQueries == Init /\ [][NextQueries]_vars

----------------------------------------------------------------------------
(* The two producer threads of web_server.py, one per camera, each running *)
(* process_camera_feed and calling process_detection on the shared object  *)
(* with no lock.  A step is one operation on the shared state; the         *)
(* interpreter may switch threads between any two of them.                 *)

\* calls each thread makes in one run
MaxThreadCalls == 2

ThreadPlateTexts == { <<"a", "b">>, <<" ">> }
ThreadTimes == {0, 2}

Frame(t) == threads[t]

SetFrame(t, f) == threads' = [threads EXCEPT ![t] = f]

Raise(t, exception) ==
    SetFrame(t, [Frame(t) EXCEPT !.pc = "error", !.error = exception])

\* _cleanup_expired_detections returns: its locals are gone
LeaveSweep(f) ==
    [f EXCEPT !.pc = "check", !.seen = {}, !.iter_len = 0, !.current_time = 0,
              !.expired_plates = {}]

\* the sweep's test on one item
IsExpired(data, current_time) ==
    current_time - data.timestamp > detection_timeout

(* The call begins: arguments are bound, _cleanup_expired_detections reads *)
(* the clock, creates the iterator over pending_detections.items() and     *)
(* takes its first item.                                                   *)
ThreadCall(t) ==
    /\ Frame(t).pc \in {"idle", "returned"}
    /\ Frame(t).calls < MaxThreadCalls
    /\ \E plate_text \in ThreadPlateTexts, timestamp \in ThreadTimes :
        \E image_path \in Images(t, timestamp) :
           LET keys == DOMAIN pending_detections
               f == [IdleFrame EXCEPT
                        !.calls = Frame(t).calls + 1,
                        !.plate = Normalize(plate_text),
                        !.timestamp = timestamp,
                        !.image_path = image_path,
                        !.current_time = now,
                        !.iter_len = Cardinality(keys)]
           IN  IF keys = {}
               THEN SetFrame(t, LeaveSweep(f))
               ELSE \E k \in keys :
                      SetFrame(t, [f EXCEPT
                          !.pc = "sweep",
                          !.seen = {k},
                          !.expired_plates =
                              IF IsExpired(pending_detections[k], now) THEN {k} ELSE {}])
    /\ UNCHANGED <<now, pending_detections, completed_detections, violations,
                   violations_file, last, issued, fine, query>>

(* The next round of "for plate, data in self.pending_detections.items()": *)
(* the iterator raises RuntimeError when the dict changed size since the   *)
(* iterator was created.                                                   *)
SweepNext(t) ==
    /\ Frame(t).pc = "sweep"
    /\ LET keys == DOMAIN pending_detections
           f == Frame(t)
       IN  IF Cardinality(keys) # f.iter_len
           THEN Raise(t, "RuntimeError")
           ELSE IF keys \ f.seen = {}
           THEN SetFrame(t, IF f.expired_plates = {}
                            THEN LeaveSweep(f)
                            ELSE [f EXCEPT !.pc = "sweep_delete"])
           ELSE \E k \in keys \ f.seen :
                  SetFrame(t, [f EXCEPT
                      !.seen = f.seen \cup {k},
                      !.expired_plates =
                          IF IsExpired(pending_detections[k], f.current_time)
                          THEN f.expired_plates \cup {k}
                          ELSE f.expired_plates])
    /\ UNCHANGED <<now, pending_detections, completed_detections, violations,
                   violations_file, last, issued, fine, query>>

\* "del self.pending_detections[plate]" for one plate of expired_plates
SweepDelete(t) ==
    /\ Frame(t).pc = "sweep_delete"
    /\ \E plate \in Frame(t).expired_plates :
         LET rest == Frame(t).expired_plates \ {plate} IN
         IF plate \in DOMAIN pending_detections
         THEN /\ pending_detections' = Without(pending_detections, {plate})
              /\ SetFrame(t, IF rest = {}
                              THEN LeaveSweep(Frame(t))
                              ELSE [Frame(t) EXCEPT !.expired_plates = rest])
         ELSE /\ Raise(t, "KeyError")
              /\ UNCHANGED pending_detections
    /\ UNCHANGED <<now, completed_detections, violations, violations_file, last,
                   issued, fine, query>>

\* "if plate_text in self.pending_detections:"
CheckPending(t) ==
    /\ Frame(t).pc = "check"
    /\ SetFrame(t, [Frame(t) EXCEPT
           !.pc = IF Frame(t).plate \in DOMAIN pending_detections
                  THEN "lookup" ELSE "store"])
    /\ UNCHANGED <<now, pending_detections, completed_detections, violations,
                   violations_file, last, issued, fine, query>>

\* "pending = self.pending_detections[plate_text]" and the tests on it
LookupPending(t) ==
    /\ Frame(t).pc = "lookup"
    /\ LET f == Frame(t) IN
       IF f.plate \notin DOMAIN pending_detections
       THEN Raise(t, "KeyError")
       ELSE LET branch == Branch(pending_detections, f.plate, t, f.timestamp)
            IN  SetFrame(t, [f EXCEPT
                    !.pending = pending_detections[f.plate],
                    !.pc = IF branch = "match" THEN "append" ELSE branch])
    /\ UNCHANGED <<now, pending_detections, completed_detections, violations,
                   violations_file, last, issued, fine, query>>

\* the measurement is built and appended to completed_detections
AppendMeasurement(t) ==
    /\ Frame(t).pc = "append"
    /\ LET f == Frame(t)
           measurement == Measurement(f.plate, f.pending, t, f.timestamp,
                                      f.image_path, now)
       IN  /\ completed_detections' = Append(completed_detections, measurement)
           /\ SetFrame(t, [f EXCEPT
                  !.measurement = measurement,
                  !.pending = None,
                  !.pc = IF OverLimit(measurement.speed_kmh)
                         THEN "create_violation" ELSE "delete"])
    /\ UNCHANGED <<now, pending_detections, violations, violations_file, last,
                   issued, fine, query>>

\* _create_violation builds the dict: the id is read from len(self.violations)
BuildViolation(t) ==
    /\ Frame(t).pc = "create_violation"
    /\ SetFrame(t, [Frame(t) EXCEPT
           !.violation = Violation(violations, Frame(t).measurement),
           !.pc = "append_violation"])
    /\ UNCHANGED <<now, pending_detections, completed_detections, violations,
                   violations_file, last, issued, fine, query>>

\* self.violations.append(violation)
AppendViolation(t) ==
    /\ Frame(t).pc = "append_violation"
    /\ violations' = Append(violations, Frame(t).violation)
    /\ issued' = Append(issued, Frame(t).violation.id)
    /\ SetFrame(t, [Frame(t) EXCEPT !.pc = "save", !.violation = None])
    /\ UNCHANGED <<now, pending_detections, completed_detections, violations_file,
                   last, fine, query>>

(* self.save_violations(), first half: open(self.violations_file, 'w').    *)
(* The file is truncated and stays empty until the dump writes into it; if *)
(* open() raises, the file is as it was and the exception is logged.       *)
SaveViolations(t) ==
    /\ Frame(t).pc = "save"
    /\ \/ /\ violations_file' = Corrupt
          /\ SetFrame(t, [Frame(t) EXCEPT !.pc = "dump"])
       \/ /\ violations_file' = save_violations(violations, violations_file, "open_failed")
          /\ SetFrame(t, [Frame(t) EXCEPT !.pc = "delete"])
    /\ UNCHANGED <<now, pending_detections, completed_detections, violations, last,
                   issued, fine, query>>

(* self.save_violations(), second half: json.dump(self.violations, f) and  *)
(* the close of the file.  The document is complete when the dump returns; *)
(* if it raises, the file keeps what was written up to then.               *)
DumpViolations(t) ==
    /\ Frame(t).pc = "dump"
    /\ \E outcome \in {"ok", "write_failed"} :
           violations_file' = save_violations(violations, violations_file, outcome)
    /\ SetFrame(t, [Frame(t) EXCEPT !.pc = "delete"])
    /\ UNCHANGED <<now, pending_detections, completed_detections, violations, last,
                   issued, fine, query>>

\* "del self.pending_detections[plate_text]" and "return measurement"
DeleteMatched(t) ==
    /\ Frame(t).pc = "delete"
    /\ IF Frame(t).plate \in DOMAIN pending_detections
       THEN /\ pending_detections' = Without(pending_detections, {Frame(t).plate})
            /\ SetFrame(t, [Frame(t) EXCEPT !.pc = "returned",
                                            !.ret = Frame(t).measurement,
                                            !.measurement = None])
       ELSE /\ Raise(t, "KeyError")
            /\ UNCHANGED pending_detections
    /\ UNCHANGED <<now, completed_detections, violations, violations_file, last,
                   issued, fine, query>>

\* the same-camera update (the elif) and "return None"
UpdatePending(t) ==
    /\ Frame(t).pc = "update"
    /\ pending_detections' =
           Store(pending_detections, Frame(t).plate,
                 Entry(t, Frame(t).timestamp, Frame(t).image_path))
    /\ SetFrame(t, [Frame(t) EXCEPT !.pc = "returned", !.pending = None])
    /\ UNCHANGED <<now, completed_detections, violations, violations_file, last,
                   issued, fine, query>>

\* the store at the end of the method and "return None"
StorePending(t) ==
    /\ Frame(t).pc = "store"
    /\ pending_detections' =
           Store(pending_detections, Frame(t).plate,
                 Entry(t, Frame(t).timestamp, Frame(t).image_path))
    /\ SetFrame(t, [Frame(t) EXCEPT !.pc = "returned", !.pending = None])
    /\ UNCHANGED <<now, completed_detections, violations, violations_file, last,
                   issued, fine, query>>

ThreadStep(t) ==
    \/ ThreadCall(t)
    \/ SweepNext(t)
    \/ SweepDelete(t)
    \/ CheckPending(t)
    \/ LookupPending(t)
    \/ AppendMeasurement(t)
    \/ BuildViolation(t)
    \/ AppendViolation(t)
    \/ SaveViolations(t)
    \/ DumpViolations(t)
    \/ DeleteMatched(t)
    \/ UpdatePending(t)
    \/ StorePending(t)

NextThreads == (\E t \in Cameras : ThreadStep(t)) \/ Tick

SpecThreads == Init /\ [][NextThreads]_vars

----------------------------------------------------------------------------
(* The serving thread of web_server.py next to the two producers: the     *)
(* route /api/statistics calls get_statistics on the shared object, with   *)
(* no lock, at any point of the producers' calls.                          *)

NextServing == (\E t \in Cameras : ThreadStep(t)) \/ Tick \/ GetStatistics

SpecServing == Init /\ [][NextServing]_vars

----------------------------------------------------------------------------
(* Reading a step of the sequential system *)

\* the step is one call of process_detection; its arguments and result are
\* in last', the call before it (if none came between) in last
IsCall == last'.seq = last.seq + 1

\* the plate of the call has no entry once the call has returned
PlateAbsentAfter == last'.plate \notin DOMAIN pending_detections'

\* the call of this step follows directly a call by camera c for the same plate
FollowsCallOf(c) == last.camera_id = c /\ last'.plate = last.plate

\* |t2 - t1| of this call and the call before it
CallDiff ==
    IF last'.timestamp >= last.timestamp
    THEN last'.timestamp - last.timestamp
    ELSE last.timestamp - last'.timestamp

\* the call found an entry of the other camera that the sweep kept, at a
\* distance d with d < 0.1 s or d > detection_timeout
FoundRejected(c) ==
    /\ c.found # None
    /\ c.found.camera_id # c.camera_id
    /\ c.now - c.found.timestamp <= 120
    /\ LET d == IF c.timestamp >= c.found.timestamp
                THEN c.timestamp - c.found.timestamp
                ELSE c.found.timestamp - c.timestamp
       IN  d < 2 \/ d > 120

----------------------------------------------------------------------------
(* C1 as stated: for every plate P, all timestamps t1, t2 with              *)
(* 0.1 <= |t2-t1| <= detection_timeout and every wall-clock value at the    *)
(* two calls, process_detection(1, P, t1) followed directly by              *)
(* process_detection(2, P, t2) returns a Measurement with                   *)
(* speed_kmh = distance_meters/|t2-t1|*3.6 and leaves no entry for P.       *)
C1_AsStated ==
    [][ (/\ IsCall
         /\ FollowsCallOf(1)
         /\ last'.camera_id = 2
         /\ 2 <= CallDiff /\ CallDiff <= 120)
        => (/\ last'.ret # None
            /\ last'.ret.speed_kmh.n * (CallDiff * 10)
                   = (5 * 20 * 36) * last'.ret.speed_kmh.d
            /\ PlateAbsentAfter) ]_vars

(* C1 amended: the same, provided the first call returned None (it did not *)
(* itself complete a match) and the wall clock at the second call is at    *)
(* most t1 + detection_timeout (the first entry has not expired).          *)
C1_MatchInWindow ==
    [][ (/\ IsCall
         /\ FollowsCallOf(1)
         /\ last'.camera_id = 2
         /\ 2 <= CallDiff /\ CallDiff <= 120
         /\ last.ret = None
         /\ now - last.timestamp <= 120)
        => (/\ last'.ret # None
            /\ last'.ret.speed_kmh.n * (CallDiff * 10)
                   = (5 * 20 * 36) * last'.ret.speed_kmh.d
            /\ PlateAbsentAfter) ]_vars

\* camera 2 completed a match at the upper end of the window, |t2-t1| = 6.0 s,
\* with t2 before t1, and the plate left the pending table
C1_Witness ==
    /\ last.seq = 2
    /\ last.camera_id = 2
    /\ last.ret # None
    /\ last.found # None /\ last.found.camera_id = 1
    /\ last.found.timestamp - last.timestamp = 120
    /\ last.plate \notin DOMAIN pending_detections

(* C2: if a pending entry for P from the other camera exists and the new   *)
(* observation's |t2-t1| is below 0.1 s (0 included) or above              *)
(* detection_timeout, the call returns None and completed_detections and   *)
(* violations are unchanged.                                               *)
C2_RejectedReturnsNone ==
    [][ (/\ IsCall
         /\ last'.found # None
         /\ last'.found.camera_id # last'.camera_id
         /\ LET d == IF last'.timestamp >= last'.found.timestamp
                     THEN last'.timestamp - last'.found.timestamp
                     ELSE last'.found.timestamp - last'.timestamp
            IN  d < 2 \/ d > 120)
        => (/\ last'.ret = None
            /\ completed_detections' = completed_detections
            /\ violations' = violations) ]_vars

\* a call found an unexpired entry of the other camera 0.05 s away (below
\* 0.1 s and not 0) and returned None
C2_Witness ==
    /\ FoundRejected(last)
    /\ last.found.timestamp - last.timestamp = 1
    /\ last.ret = None
    /\ completed_detections = <<>>

(* C3 as stated: when a cross-camera match for P is rejected because       *)
(* time_diff is outside the window, the pending entry for P is left        *)
(* untouched and the new observation is not stored.                        *)
C3_AsStated ==
    [][ (IsCall /\ FoundRejected(last'))
        => (/\ last'.plate \in DOMAIN pending_detections'
            /\ pending_detections'[last'.plate] = last'.found) ]_vars

(* C3 amended: when a cross-camera match for P is rejected because         *)
(* time_diff is outside the window, the call returns None, records no      *)
(* Measurement or Violation, and the pending entry for P is replaced by    *)
(* the new observation's camera_id, timestamp and image_path.              *)
C3_RejectedOverwrites ==
    [][ (IsCall /\ FoundRejected(last'))
        => (/\ last'.ret = None
            /\ completed_detections' = completed_detections
            /\ violations' = violations
            /\ last'.plate \in DOMAIN pending_detections'
            /\ pending_detections'[last'.plate] =
                   [camera_id |-> last'.camera_id,
                    timestamp |-> last'.timestamp,
                    image_path |-> last'.image_path]) ]_vars

\* a rejected cross-camera call (|t2-t1| = 6.05 s) after which the entry of
\* the plate is the new observation and no longer the one it found
C3_Witness ==
    /\ FoundRejected(last)
    /\ last.timestamp - last.found.timestamp = 121
    /\ last.plate \in DOMAIN pending_detections
    /\ pending_detections[last.plate].camera_id = last.camera_id
    /\ pending_detections[last.plate] # last.found

(* C6: two consecutive same-camera observations of P never produce a       *)
(* Measurement: the second call returns None, completed_detections is      *)
(* unchanged and the pending entry for P holds the second observation's    *)
(* camera_id, timestamp and image_path.                                    *)
C6_SameCameraOverwrites ==
    [][ (/\ IsCall
         /\ last.camera_id \in {1, 2}
         /\ FollowsCallOf(last'.camera_id))
        => (/\ last'.ret = None
            /\ completed_detections' = completed_detections
            /\ last'.plate \in DOMAIN pending_detections'
            /\ pending_detections'[last'.plate] =
                   [camera_id |-> last'.camera_id,
                    timestamp |-> last'.timestamp,
                    image_path |-> last'.image_path]) ]_vars

\* the second of two calls found the unexpired entry of its own camera, 0.1 s
\* older, and the entry now carries the second observation
C6_Witness ==
    /\ last.seq = 2
    /\ last.found # None
    /\ last.found.camera_id = last.camera_id
    /\ last.now - last.found.timestamp <= 120
    /\ last.timestamp - last.found.timestamp = 2
    /\ last.ret = None
    /\ pending_detections[last.plate].timestamp = last.timestamp
    /\ pending_detections[last.plate].image_path # last.found.image_path

(* C7 as stated: if process_detection(1, P, t1) is followed, after the     *)
(* wall clock has advanced by more than detection_timeout, by              *)
(* process_detection(2, P, t2), the second call returns None for every t1  *)
(* and t2 and no Measurement is created.                                   *)
C7_AsStated ==
    [][ (/\ IsCall
         /\ FollowsCallOf(1)
         /\ last'.camera_id = 2
         /\ now - last.now > 120)
        => (/\ last'.ret = None
            /\ completed_detections' = completed_detections) ]_vars

(* C7 amended: the same for every t2 and every t1 that is not later than   *)
(* the wall clock at the first call.                                       *)
C7_ExpiryBeforeMatch ==
    [][ (/\ IsCall
         /\ FollowsCallOf(1)
         /\ last'.camera_id = 2
         /\ now - last.now > 120
         /\ last.timestamp <= last.now)
        => (/\ last'.ret = None
            /\ completed_detections' = completed_detections) ]_vars

\* camera 2 called 0.1 s (by timestamps) after camera 1's entry, which the
\* sweep had removed: None, and the new observation is pending
C7_Witness ==
    /\ last.seq = 2
    /\ last.camera_id = 2
    /\ last.found # None /\ last.found.camera_id = 1
    /\ last.now - last.found.timestamp > 120
    /\ last.timestamp - last.found.timestamp = 2
    /\ last.ret = None
    /\ completed_detections = <<>>
    /\ pending_detections[last.plate].camera_id = 2

(* C8: a Violation is created in a call if and only if the call produced a *)
(* Measurement with speed_kmh strictly greater than speed_limit_kmh; a     *)
(* Measurement with speed_kmh equal to the limit has over_speed_limit      *)
(* false and creates no Violation.                                         *)
C8_ViolationGate ==
    [][ IsCall =>
        /\ (Len(violations') = Len(violations) + 1)
             <=> (/\ last'.ret # None
                  /\ last'.ret.speed_kmh.n > 60 * last'.ret.speed_kmh.d)
        /\ \/ violations' = violations
           \/ /\ Len(violations') = Len(violations) + 1
              /\ SubSeq(violations', 1, Len(violations)) = violations
              /\ violations'[Len(violations')].plate = last'.plate
        /\ (/\ last'.ret # None
            /\ last'.ret.speed_kmh.n = 60 * last'.ret.speed_kmh.d)
             => (~last'.ret.over_speed_limit /\ violations' = violations) ]_vars

\* a Measurement of exactly 60 km/h (5 m in 0.3 s) with no Violation
C8_Witness ==
    /\ last.ret # None
    /\ last.ret.time_diff_seconds = 6
    /\ last.ret.speed_kmh = [n |-> 60, d |-> 1]
    /\ ~last.ret.over_speed_limit
    /\ violations = <<>>
    /\ Len(completed_detections) = 1

(* C4 as stated: with the two producer threads running process_detection    *)
(* concurrently and unserialised, no pending observation is consumed into   *)
(* more than one Measurement (so there are never more Measurements than     *)
(* calls of either camera), and a pair of observations that matches in      *)
(* every serial order always yields a Measurement.  The pair taken here:    *)
(* the first call of each thread, same plate, timestamps 0.1 s to 6.0 s     *)
(* apart, neither older than detection_timeout.                             *)
C4_AsStated ==
    /\ Len(completed_detections) <= threads[1].calls
    /\ Len(completed_detections) <= threads[2].calls
    /\ (/\ \A t \in Cameras : threads[t].pc = "returned" /\ threads[t].calls = 1
        /\ threads[1].plate = threads[2].plate
        /\ LET d == IF threads[1].timestamp >= threads[2].timestamp
                    THEN threads[1].timestamp - threads[2].timestamp
                    ELSE threads[2].timestamp - threads[1].timestamp
           IN  2 <= d /\ d <= 120
        /\ \A t \in Cameras : now - threads[t].timestamp <= 120)
       => Len(completed_detections) = 1

(* C5 as stated: no call of process_detection ends in an error, under any  *)
(* interleaving of the two producers.                                      *)
C5_AsStated == \A t \in Cameras : threads[t].pc # "error"

(* C9: for every speed above the limit, with excess = speed_kmh -          *)
(* speed_limit_kmh, _calculate_fine returns 100 when excess <= 10, 200     *)
(* when 10 < excess <= 20, 400 when 20 < excess <= 30 and 600 when         *)
(* excess > 30.                                                            *)
C9_FineTiers ==
    fine # NoFine =>
        LET n == fine.speed_kmh.n - 60 * fine.speed_kmh.d   \* excess = n/d
            d == fine.speed_kmh.d
        IN  /\ n > 0
            /\ (n <= 10 * d) => fine.fine_amount = 100
            /\ (10 * d < n /\ n <= 20 * d) => fine.fine_amount = 200
            /\ (20 * d < n /\ n <= 30 * d) => fine.fine_amount = 400
            /\ (30 * d < n) => fine.fine_amount = 600

\* the fine of 70 km/h, an excess of exactly 10, is 100
C9_Witness ==
    /\ fine.speed_kmh = [n |-> 70, d |-> 1]
    /\ fine.fine_amount = 100

(* C10 as stated: violation ids are sequential and never reused: after any *)
(* sequence of startups, observations, storage failures and restarts each  *)
(* newly created Violation gets a 1-based id greater than every id issued  *)
(* before it.                                                              *)
C10_AsStated ==
    \A j \in 1..Len(issued) :
        /\ issued[j] >= 1
        /\ \A i \in 1..(j - 1) : issued[i] < issued[j]

----------------------------------------------------------------------------
(* Reading a startup step *)

\* the step is a construction of the object that follows a call (so no
\* other call came between that call and the construction)
IsStartupAfterCall == last'.camera_id = 0 /\ last.camera_id # 0

(* C11: after every Violation creation whose write succeeds, the content   *)
(* of the violations file equals the complete in-memory violations list in *)
(* order: the list as it was before the call (loaded at startup and grown  *)
(* since) followed by the Violation just created.                          *)
C11_FileEqualsList ==
    [][ (IsCall /\ last'.save = "ok")
        => (/\ violations_file'.kind = "list"
            /\ json_load(violations_file'.content) = violations'
            /\ Len(violations') = Len(violations) + 1
            /\ SubSeq(violations', 1, Len(violations)) = violations
            /\ violations'[Len(violations')].plate = last'.plate) ]_vars

\* a successful write of a list of two: the first violation was loaded at
\* startup (this session has made one measurement), the second created now
C11_Witness ==
    /\ last.save = "ok"
    /\ Len(violations) = 2
    /\ Len(completed_detections) = 1
    /\ violations_file.kind = "list"
    /\ Len(violations_file.content) = 2
    /\ violations_file.content[1].id.value = 1
    /\ violations_file.content[2].id.value = 2

(* C12 as stated: the rewrite of the violations file is atomic: at every   *)
(* point of save_violations at which the process may stop, the file holds  *)
(* either the complete previous list (or is still absent) or the complete  *)
(* new list, never an empty or partial document.                           *)
C12_AsStated == violations_file.kind \in {"absent", "list"}

C14_UnreadableFileAtStartup ==
    [][ (last'.camera_id = 0 /\ last'.load = "failed")
        => (/\ violations' = <<>>
            /\ pending_detections' = <<>>
            /\ completed_detections' = <<>>) ]_vars

\* a startup over a file that holds a violation but could not be read: the
\* object is constructed with nothing in it
C14_Witness ==
    /\ last.camera_id = 0
    /\ last.load = "failed"
    /\ violations_file.kind = "list"
    /\ Len(violations_file.content) >= 1
    /\ violations = <<>>
    /\ pending_detections = <<>>
    /\ completed_detections = <<>>

(* C15: when the write of the violations file fails during a Violation     *)
(* creation, the call still returns the Measurement, the new Violation is  *)
(* the last element of the in-memory list and of get_violations(), the     *)
(* Measurement is the last element of completed_detections, and the        *)
(* pending entry of the plate is removed.                                  *)
C15_WriteFailureKeepsResult ==
    [][ (IsCall /\ last'.save \in {"open_failed", "write_failed"})
        => (/\ last'.ret # None
            /\ last'.ret.plate = last'.plate
            /\ Len(violations') = Len(violations) + 1
            /\ SubSeq(violations', 1, Len(violations)) = violations
            /\ violations'[Len(violations')].plate = last'.plate
            /\ violations'[Len(violations')].speed_kmh = last'.ret.speed_kmh
            /\ get_violations(violations', None) = violations'
            /\ completed_detections' = Append(completed_detections, last'.ret)
            /\ PlateAbsentAfter) ]_vars

\* a call whose dump failed after the file was truncated: the Measurement
\* was returned, the Violation is in memory and the file is unusable
C15_Witness ==
    /\ last.save = "write_failed"
    /\ last.ret # None
    /\ violations_file.kind = "corrupt"
    /\ Len(violations) = 1
    /\ Len(completed_detections) = 1
    /\ last.plate \notin DOMAIN pending_detections

\* the step is a query: the object is as it was and query' holds the
\* query's arguments and what it returned
IsQuery ==
    /\ query'.op # "none"
    /\ UNCHANGED <<pending_detections, completed_detections, violations,
                   violations_file, last>>

(* C16: get_statistics called when completed_detections is empty returns   *)
(* every field equal to zero, whatever the content of the violations list  *)
(* (including violations loaded from storage at startup).                  *)
C16_StatisticsWithoutMeasurements ==
    [][ (IsQuery /\ query'.op = "get_statistics" /\ completed_detections = <<>>)
        => (/\ query'.statistics.total_measurements = 0
            /\ query'.statistics.total_violations = 0
            /\ query'.statistics.violation_percentage.n = 0
            /\ query'.statistics.average_speed.n = 0
            /\ query'.statistics.max_speed.n = 0) ]_vars

\* statistics asked of an object that has made no measurement and holds two
\* violations loaded at startup: every field is zero
C16_Witness ==
    /\ query.op = "get_statistics"
    /\ completed_detections = <<>>
    /\ Len(violations) = 2
    /\ last.load = "loaded"
    /\ query.statistics.total_violations = 0
    /\ query.statistics.total_measurements = 0

(* C17 as stated: for every n >= 0, get_recent_measurements(n) and         *)
(* get_violations(n) return exactly the last min(n, length) entries of the *)
(* respective history in insertion order; n = 0 returns an empty list and  *)
(* n larger than the history returns the whole history.                    *)
C17_AsStated ==
    [][ (/\ IsQuery
         /\ query'.op \in {"get_recent_measurements", "get_violations"}
         /\ query'.count # None)
        => LET history == IF query'.op = "get_violations"
                          THEN violations ELSE completed_detections
               n == query'.count.value
               k == IF n < Len(history) THEN n ELSE Len(history)
           IN  query'.result = SubSeq(history, Len(history) - k + 1, Len(history)) ]_vars

\* a is an initial part of b
IsPrefix(a, b) == Len(a) <= Len(b) /\ SubSeq(b, 1, Len(a)) = a

(* C18: the measurement and violation histories are append-only: every     *)
(* process_detection call leaves each history as it was or with records    *)
(* added at its end, so the history at any earlier state is a prefix of    *)
(* the history at every later state of the same object, and no existing    *)
(* record is changed or removed.                                           *)
C18_AppendOnly ==
    [][ IsCall
        => (/\ IsPrefix(completed_detections, completed_detections')
            /\ IsPrefix(violations, violations')
            /\ Len(completed_detections') <= Len(completed_detections) + 1
            /\ Len(violations') <= Len(violations) + 1) ]_vars

\* one object that made three measurements and three violations, the
\* violations in the order of their ids
C18_Witness ==
    /\ last.seq = 6
    /\ Len(completed_detections) = 3
    /\ Len(violations) = 3
    /\ \A i \in 1..3 : violations[i].id = i
    /\ completed_detections[1] # completed_detections[3]

(* C19: at every instant there is at most one pending entry per normalized *)
(* plate (the keys of the table are normalized plates), and every          *)
(* process_detection call for plate P that does not complete a             *)
(* cross-camera match leaves the pending entry for P equal to that call's  *)
(* camera_id, timestamp and image_path, whether or not an entry existed    *)
(* before.                                                                 *)
C19_NonMatchStoresObservation ==
    [][ IsCall
        => (/\ \A p \in DOMAIN pending_detections' : Normalize(p) = p
            /\ last'.ret = None
                 => (/\ last'.plate \in DOMAIN pending_detections'
                     /\ pending_detections'[last'.plate] =
                            [camera_id |-> last'.camera_id,
                             timestamp |-> last'.timestamp,
                             image_path |-> last'.image_path])) ]_vars

\* a call for a plate without an entry, made while another plate was
\* pending: both plates have their one entry, this plate's is the call's
C19_Witness ==
    /\ last.camera_id \in {1, 2}
    /\ last.found = None
    /\ last.ret = None
    /\ Cardinality(DOMAIN pending_detections) = 2
    /\ pending_detections[last.plate].camera_id = last.camera_id
    /\ pending_detections[last.plate].timestamp = last.timestamp

(* C20: on return from any process_detection call made at wall-clock time  *)
(* now, every pending entry other than the one of the call's plate         *)
(* satisfies now - timestamp <= detection_timeout: the sweep removes the   *)
(* older entries of all plates, and an entry whose age is at most          *)
(* detection_timeout (exactly detection_timeout included) is kept as it    *)
(* was.                                                                    *)
C20_SweepAllPlates ==
    [][ IsCall
        => (/\ \A p \in DOMAIN pending_detections' \ {last'.plate} :
                   now - pending_detections'[p].timestamp <= 120
            /\ \A p \in DOMAIN pending_detections \ {last'.plate} :
                   (now - pending_detections[p].timestamp <= 120)
                       => (/\ p \in DOMAIN pending_detections'
                           /\ pending_detections'[p] = pending_detections[p])) ]_vars

\* a call at 6.05 s whose own plate's old entry had expired, while the
\* entry of the other plate, exactly 6.0 s old, is still pending
C20_Witness ==
    /\ last.now = 121
    /\ last.found # None
    /\ last.now - last.found.timestamp > 120
    /\ \E p \in DOMAIN pending_detections \ {last.plate} :
           last.now - pending_detections[p].timestamp = 120

----------------------------------------------------------------------------
(* Reading a query of the serving thread *)

\* the step is a query made while the producers stand where they stand
IsServingQuery == IsQuery /\ UNCHANGED threads

\* the measurements of a history that are over the speed limit
OverLimitCount(completed) ==
    Cardinality({i \in 1..Len(completed) : completed[i].over_speed_limit})

(* C21 as stated: a statistics query made from the serving thread while a  *)
(* producer is inside process_detection returns what it would return in    *)
(* the state before or the state after that call: it never observes a      *)
(* state in which a Measurement is recorded but its Violation is not, so   *)
(* the violations it counts are those of the over-limit measurements it    *)
(* counts.                                                                 *)
C21_AsStated ==
    [][ (IsServingQuery /\ query'.op = "get_statistics")
        => query'.statistics.total_violations = OverLimitCount(completed_detections) ]_vars

\* the observation this call found pending for its plate was of the other
\* camera, had not expired, and lies 0.1 s to detection_timeout away
FoundMatching(c) ==
    /\ c.found # None
    /\ c.found.camera_id # c.camera_id
    /\ c.now - c.found.timestamp <= 120
    /\ LET d == IF c.timestamp >= c.found.timestamp
                THEN c.timestamp - c.found.timestamp
                ELSE c.found.timestamp - c.timestamp
       IN  2 <= d /\ d <= 120

(* C22: an observation whose plate text is empty or only spaces is         *)
(* normalized to the empty key and handled like any other plate: matched   *)
(* by the other camera's observation within the window, and otherwise      *)
(* stored as the pending entry (new, or over the entry of the same         *)
(* camera), the call returning None.                                       *)
C22_EmptyPlateHandled ==
    [][ (IsCall /\ \A i \in 1..Len(last'.plate_text) : last'.plate_text[i] = " ")
        => (/\ last'.plate = <<>>
            /\ FoundMatching(last')
                 => (/\ last'.ret # None
                     /\ last'.ret.plate = <<>>
                     /\ <<>> \notin DOMAIN pending_detections')
            /\ ~FoundMatching(last')
                 => (/\ last'.ret = None
                     /\ <<>> \in DOMAIN pending_detections'
                     /\ pending_detections'[<<>>] =
                            [camera_id |-> last'.camera_id,
                             timestamp |-> last'.timestamp,
                             image_path |-> last'.image_path])) ]_vars

\* two observations of a plate text of one space, one from each camera,
\* made a Measurement whose plate is the empty text
C22_Witness ==
    /\ last.plate_text = <<" ">>
    /\ last.plate = <<>>
    /\ last.ret # None
    /\ last.ret.plate = <<>>
    /\ last.found # None
    /\ <<>> \notin DOMAIN pending_detections

(* C23: every Violation created in a session corresponds one-to-one, in    *)
(* order, to a Measurement of that session with over_speed_limit true: a   *)
(* call appends one Violation exactly when it appends such a Measurement,  *)
(* and the Violation's plate, speed_kmh, time_diff_seconds and image       *)
(* references equal those of the Measurement, with speed_limit_kmh the     *)
(* configured limit.                                                       *)
C23_ViolationOfMeasurement ==
    [][ IsCall
        => IF last'.ret # None /\ last'.ret.over_speed_limit
           THEN /\ completed_detections' = Append(completed_detections, last'.ret)
                /\ Len(violations') = Len(violations) + 1
                /\ SubSeq(violations', 1, Len(violations)) = violations
                /\ LET v == violations'[Len(violations')]
                       m == last'.ret
                   IN  /\ v.plate = m.plate
                       /\ v.speed_kmh = m.speed_kmh
                       /\ v.time_diff_seconds = m.time_diff_seconds
                       /\ v.camera1_image = m.camera1_image
                       /\ v.camera2_image = m.camera2_image
                       /\ v.speed_limit_kmh = 60
           ELSE violations' = violations ]_vars

\* the third over-limit Measurement of one session and its Violation, the
\* third of the list, with the images of camera 1 and camera 2 in place
C23_Witness ==
    /\ last.ret # None
    /\ last.ret.over_speed_limit
    /\ Len(completed_detections) = 3
    /\ Len(violations) = 3
    /\ violations[3].camera1_image = completed_detections[3].camera1_image
    /\ violations[3].camera1_image.camera = 1
    /\ violations[3].camera2_image.camera = 2
    /\ violations[3].speed_kmh = completed_detections[3].speed_kmh

(* C24: matching does not depend on arrival order: whichever of the two    *)
(* observations of P arrives first, the Measurement has camera1_time and   *)
(* camera1_image from the camera-1 observation, camera2_time and           *)
(* camera2_image from the camera-2 observation, time_diff_seconds =        *)
(* |camera2_time - camera1_time| and speed_kmh = distance_meters /         *)
(* time_diff_seconds * 3.6, which is the same in both orders.              *)
C24_ArrivalOrder ==
    [][ (IsCall /\ last'.ret # None)
        => LET m == last'.ret
               first == last'.found
               obs1 == IF last'.camera_id = 1
                       THEN [timestamp |-> last'.timestamp, image_path |-> last'.image_path]
                       ELSE [timestamp |-> first.timestamp, image_path |-> first.image_path]
               obs2 == IF last'.camera_id = 2
                       THEN [timestamp |-> last'.timestamp, image_path |-> last'.image_path]
                       ELSE [timestamp |-> first.timestamp, image_path |-> first.image_path]
               d == IF obs2.timestamp >= obs1.timestamp
                    THEN obs2.timestamp - obs1.timestamp
                    ELSE obs1.timestamp - obs2.timestamp
           IN  /\ first # None
               /\ first.camera_id # last'.camera_id
               /\ m.camera1_time = obs1.timestamp
               /\ m.camera1_image = obs1.image_path
               /\ m.camera2_time = obs2.timestamp
               /\ m.camera2_image = obs2.image_path
               /\ m.time_diff_seconds = d
               /\ m.speed_kmh.n * (d * 10) = (5 * 20 * 36) * m.speed_kmh.d ]_vars

\* the camera-2 observation arrived first and the camera-1 observation,
\* 0.2 s earlier by its timestamp, completed the match
C24_Witness ==
    /\ last.camera_id = 1
    /\ last.ret # None
    /\ last.found # None /\ last.found.camera_id = 2
    /\ last.ret.camera1_time = 2
    /\ last.ret.camera2_time = 6
    /\ last.ret.camera1_image = last.image_path
    /\ last.ret.camera2_image = last.found.image_path
    /\ last.ret.speed_kmh = [n |-> 90, d |-> 1]

\* the characters of a text other than spaces, letters in upper case
RECURSIVE Letters(_)
Letters(text) ==
    IF text = <<>> THEN <<>>
    ELSE IF Head(text) = " " THEN Letters(Tail(text))
    ELSE <<(CASE Head(text) = "a" -> "A" [] Head(text) = "b" -> "B" [] OTHER -> Head(text))>>
             \o Letters(Tail(text))

(* C25: plate texts that differ only in letter case and in leading,        *)
(* trailing or internal space characters are the same pending key: the     *)
(* key of a call is its text without spaces and in upper case, an          *)
(* observation from one camera and one from the other with such texts      *)
(* match (timestamps within the window, first entry unexpired), the        *)
(* Measurement's plate is the normalized text, and normalizing the         *)
(* normalized text changes nothing.                                        *)
C25_SpellingsShareKey ==
    [][ IsCall
        => (/\ last'.plate = Letters(last'.plate_text)
            /\ Normalize(last'.plate) = last'.plate
            /\ \A p \in DOMAIN pending_detections' : Letters(p) = p
            /\ (/\ last.camera_id \in {1, 2}
                /\ last.camera_id # last'.camera_id
                /\ Letters(last.plate_text) = Letters(last'.plate_text)
                /\ last.ret = None
                /\ 2 <= CallDiff /\ CallDiff <= 120
                /\ now - last.timestamp <= 120)
               => (/\ last'.ret # None
                   /\ last'.ret.plate = Letters(last'.plate_text)
                   /\ PlateAbsentAfter)) ]_vars

\* an observation spelled "A b" matched the pending one of the other
\* camera, and the Measurement's plate is "AB"
C25_Witness ==
    /\ last.seq = 2
    /\ last.plate_text = <<"A", " ", "b">>
    /\ last.found # None
    /\ last.found.camera_id # last.camera_id
    /\ last.ret # None
    /\ last.ret.plate = <<"A", "B">>
    /\ pending_detections = <<>>

(* C26: every Measurement in completed_detections has 0.1 <=               *)
(* time_diff_seconds <= detection_timeout and speed_ms > 0: its speed_ms   *)
(* is distance_meters / time_diff_seconds, never the value 0 of the        *)
(* zero-time fallback, and its speed_kmh is at most distance_meters / 0.1  *)
(* * 3.6 = 180.                                                            *)
C26_MeasurementBounds ==
    \A i \in 1..Len(completed_detections) :
        LET m == completed_detections[i]
        IN  /\ 2 <= m.time_diff_seconds
            /\ m.time_diff_seconds <= 120
            /\ m.speed_ms.n > 0
            /\ m.speed_ms.n * m.time_diff_seconds = (5 * 20) * m.speed_ms.d
            /\ m.speed_kmh.n <= 180 * m.speed_kmh.d

\* a Measurement at the lower end of the window, 0.1 s apart: 50 m/s,
\* 180 km/h, the largest speed there is
C26_Witness ==
    /\ Len(completed_detections) = 1
    /\ completed_detections[1].time_diff_seconds = 2
    /\ completed_detections[1].speed_ms = [n |-> 50, d |-> 1]
    /\ completed_detections[1].speed_kmh = [n |-> 180, d |-> 1]

(* C27: each observation is used in at most one Measurement: a successful  *)
(* match removes the pending entry and does not store the matching         *)
(* observation, so after k process_detection calls there are at most k/2   *)
(* Measurements, and an observation of P right after a match returns None. *)
C27_ObservationUsedOnce ==
    [][ IsCall
        => (/\ 2 * Len(completed_detections') <= last'.seq
            /\ last'.ret # None => PlateAbsentAfter
            /\ (last.ret # None /\ last'.plate = last.plate)
                 => (/\ last'.ret = None
                     /\ completed_detections' = completed_detections)) ]_vars

\* the third observation, right after the match of the first two: None,
\* one Measurement, and the observation is pending
C27_Witness ==
    /\ last.seq = 3
    /\ last.ret = None
    /\ last.found = None
    /\ Len(completed_detections) = 1
    /\ last.plate \in DOMAIN pending_detections
    /\ pending_detections[last.plate].timestamp = last.timestamp

(* C28: process_detection returns a Measurement exactly when it appended   *)
(* one record to completed_detections in that call, and the returned       *)
(* record is the last element of the history; a call that returns None     *)
(* leaves completed_detections, violations and the violations file         *)
(* unchanged.                                                              *)
C28_ReturnAndFrame ==
    [][ IsCall
        => (/\ (last'.ret # None)
                 <=> (Len(completed_detections') = Len(completed_detections) + 1)
            /\ last'.ret # None
                 => (/\ completed_detections' = Append(completed_detections, last'.ret)
                     /\ completed_detections'[Len(completed_detections')] = last'.ret)
            /\ last'.ret = None
                 => (/\ completed_detections' = completed_detections
                     /\ violations' = violations
                     /\ violations_file' = violations_file)) ]_vars

\* a call that returned a Measurement within the limit (6.0 s apart,
\* 3 km/h): it is the one record of the history, and there is no violation
\* and no file
C28_Witness ==
    /\ last.ret # None
    /\ last.ret.speed_kmh = [n |-> 3, d |-> 1]
    /\ completed_detections = <<last.ret>>
    /\ violations = <<>>
    /\ violations_file.kind = "absent"

(* C29: a process_detection call for plate P changes the pending entry of  *)
(* a different plate Q only by removing it when Q's entry is expired; an   *)
(* unexpired entry for Q keeps its camera_id, timestamp and image_path,    *)
(* and no entry for a plate other than P is created.                       *)
C29_OtherPlatesFrame ==
    [][ IsCall
        => (/\ \A q \in DOMAIN pending_detections \ {last'.plate} :
                   IF now - pending_detections[q].timestamp > 120
                   THEN q \notin DOMAIN pending_detections'
                   ELSE /\ q \in DOMAIN pending_detections'
                        /\ pending_detections'[q] = pending_detections[q]
            /\ \A q \in DOMAIN pending_detections' \ {last'.plate} :
                   q \in DOMAIN pending_detections) ]_vars

\* the third call, at 6.05 s, replaced the expired entry of its own plate,
\* while the other plate's entry, 5.95 s old, is as it was stored
C29_Witness ==
    /\ last.seq = 3
    /\ last.now = 121
    /\ last.found # None
    /\ last.now - last.found.timestamp > 120
    /\ \E q \in DOMAIN pending_detections \ {last.plate} :
           /\ pending_detections[q].timestamp = 2
           /\ pending_detections[q].image_path.time = 2

(* C30 as stated: in every reachable state get_statistics reports          *)
(* total_violations <= total_measurements and therefore                    *)
(* violation_percentage <= 100, including after a startup that loaded      *)
(* previously persisted violations.                                        *)
C30_AsStated ==
    [][ (IsQuery /\ query'.op = "get_statistics")
        => (/\ query'.statistics.total_violations <= query'.statistics.total_measurements
            /\ query'.statistics.violation_percentage.n
                   <= 100 * query'.statistics.violation_percentage.d) ]_vars

----------------------------------------------------------------------------
(* Reading the end of a concurrent run *)

\* thread t has returned from its k-th call
ReturnedFrom(t, k) == threads[t].pc = "returned" /\ threads[t].calls = k

(* C31 as stated: when the two producer threads each complete a match for  *)
(* a different plate at the same time and both speeds exceed the limit,    *)
(* both Violations end up in the violations list with distinct ids.        *)
C31_AsStated ==
    (/\ \A t \in Cameras :
            /\ threads[t].pc = "returned"
            /\ threads[t].ret # None
            /\ threads[t].ret.over_speed_limit
        /\ threads[1].plate # threads[2].plate)
    => (/\ Len(violations) = 2
        /\ {violations[1].plate, violations[2].plate}
               = {threads[1].plate, threads[2].plate}
        /\ violations[1].id # violations[2].id)

\* the state the claim compares: pending table, history and violations
SharedState(pending, completed, vs) == [pending_detections |-> pending, completed_detections |-> completed, violations |-> vs]

\* the state process_detection leaves when the first calls of the two
\* threads run one after the other, thread `first` before the other one
SerialFirstCalls(first) ==
    LET second == OtherCamera(first)
        empty  == [pending_detections |-> <<>>, completed_detections |-> <<>>, violations |-> <<>>, violations_file |-> Absent]
        one    == process_detection_result(empty, first, threads[first].plate, threads[first].timestamp, threads[first].image_path, 0, "ok")
        two    == process_detection_result(one, second, threads[second].plate, threads[second].timestamp, threads[second].image_path, 0, "ok")
    IN  SharedState(two.pending_detections, two.completed_detections, two.violations)

(* C32, first part, as stated: a concurrent execution of one               *)
(* process_detection call by each producer thread ends in the state that   *)
(* one of the two serial orders of the same calls reaches.                 *)
C32_SerialFirstCalls ==
    (now = 0 /\ \A t \in Cameras : ReturnedFrom(t, 1))
    => SharedState(pending_detections, completed_detections, violations) \in { SerialFirstCalls(t) : t \in Cameras }

(* C32, second part, as stated: thread 1 stores a re-observation of plate  *)
(* P while thread 2 is completing a match for P against the earlier        *)
(* observation; the match does not delete the re-observation, which is     *)
(* pending when both have returned.                                        *)
C32_ReobservationKept ==
    (/\ ReturnedFrom(1, 2) /\ threads[1].ret = None
     /\ ReturnedFrom(2, 1) /\ threads[2].ret # None
     /\ threads[1].plate = threads[2].plate
     /\ threads[2].ret.camera1_time # threads[1].timestamp)
    => (/\ threads[1].plate \in DOMAIN pending_detections
        /\ pending_detections[threads[1].plate].timestamp = threads[1].timestamp)

(* C32 as stated: every concurrent execution of process_detection by the   *)
(* two producer threads ends in a state equal to the state some serial     *)
(* order of the same calls reaches, and a same-camera re-observation       *)
(* stored during the other thread's match is not deleted by that match.    *)
C32_AsStated == C32_SerialFirstCalls /\ C32_ReobservationKept

----------------------------------------------------------------------------
(* One producer calling for ever while the wall clock advances            *)
(* (process_camera_feed returns at once for a camera that is not           *)
(* available, so one camera's loop can be the only caller; its calls       *)
(* never match and the histories stay empty)                               *)

\* advances of the wall clock in one run
MaxLiveTicks == 2

\* one advance of the wall clock, longer than the timeout
LiveTickLength == 121

MaxLiveClock == MaxLiveTicks * LiveTickLength

LivePlateTexts == { <<"a", "b">>, <<"b", "a">> }

LivePlates == { Normalize(plate_text) : plate_text \in LivePlateTexts }

LiveTimes == {0, 2}

\* one iteration of camera 1's loop that reaches process_detection; last
\* also records the plates the sweep of this call collected
LiveDetection ==
    /\ \E plate_text \in LivePlateTexts, timestamp \in LiveTimes \cup {now} :
           \E image_path \in Images(1, timestamp) :
               \E r \in {process_detection_result(Self, 1, plate_text, timestamp, image_path, now, "ok")} :
                   /\ pending_detections' = r.pending_detections
                   /\ completed_detections' = r.completed_detections
                   /\ violations' = r.violations
                   /\ violations_file' = r.violations_file
                   /\ last' = [seq |-> 1,
                               camera_id |-> 1,
                               plate_text |-> plate_text,
                               plate |-> Normalize(plate_text),
                               timestamp |-> timestamp,
                               image_path |-> image_path,
                               now |-> now,
                               found |-> IF Normalize(plate_text) \in DOMAIN pending_detections
                                         THEN pending_detections[Normalize(plate_text)]
                                         ELSE None,
                               ret |-> r.ret,
                               save |-> "none",
                               load |-> "none",
                               expired_plates |-> ExpiredPlates(pending_detections, now)]
    /\ UNCHANGED <<now, issued, threads, fine, query>>

\* the wall clock advances by more than the timeout
LiveTick ==
    /\ now < MaxLiveClock
    /\ now' = now + LiveTickLength
    /\ UNCHANGED <<pending_detections, completed_detections, violations,
                   violations_file, last, issued, threads, fine, query>>

NextLive == LiveDetection \/ LiveTick

\* time.time() keeps advancing, and the loop "while system_status['running']"
\* keeps reaching process_detection
SpecLive == Init /\ [][NextLive]_vars /\ WF_vars(LiveTick) /\ WF_vars(LiveDetection)

\* plate has a pending entry that the clock of this run can outlast, and
\* the latest call was for another plate
Sitting(plate) ==
    /\ plate \in DOMAIN pending_detections
    /\ pending_detections[plate].timestamp + 120 < MaxLiveClock
    /\ last.plate # plate

(* C33: lazy expiry is live. While the wall clock keeps advancing and      *)
(* process_detection keeps being called, every pending entry is            *)
(* eventually removed from pending_detections unless its plate is          *)
(* observed again; and an advance of the clock alone, without a call,      *)
(* removes nothing.                                                        *)
C33_LazyExpiryLive ==
    /\ \A plate \in LivePlates :
           Sitting(plate) ~> (plate \notin DOMAIN pending_detections \/ last.plate = plate)
    /\ [][now' # now => pending_detections' = pending_detections]_vars

\* a call for BA, made once the clock has passed AB's deadline, has swept
\* AB's entry away
C33_Witness ==
    /\ last.seq = 1
    /\ last.plate = <<"B", "A">>
    /\ last.expired_plates = {<<"A", "B">>}
    /\ <<"A", "B">> \notin DOMAIN pending_detections
    /\ now = last.now

====
